---- MODULE Spec2Model ----
(***************************************************************************)
(* A model of src/dashboard.py: the record source (get_data_from_sheet,    *)
(* load_sensor_data), the normalisation inside load_sensor_data, and the   *)
(* request handlers dashboard() and booth().                               *)
(*                                                                         *)
(* Representation.                                                         *)
(*  - A string is a sequence of tokens; " " is the space token, so         *)
(*    str.replace(' ', '') is the removal of the " " tokens.               *)
(*  - A cell of a DataFrame is a record [k, v]: k is its kind (num, nan,   *)
(*    ts, nat, txt, junk, none, cat), v its payload.  A number is held in  *)
(*    tenths (25.1 is 251), a timestamp in seconds.  txt is a text that    *)
(*    parses as the number or the timestamp v, junk a text that parses as  *)
(*    neither (the empty string included).                                 *)
(*  - A DataFrame is [cols, rows]: its column names and the sequence of    *)
(*    its rows, each a function from cols to cells.                        *)
(*  - A call's outcome is a record with a field raised: an exception that  *)
(*    leaves the function is raised = TRUE.                                *)
(***************************************************************************)
EXTENDS Integers, Sequences, FiniteSets, TLC

VARIABLES
    \* the process: the worksheet opened at start-up (line 44), the topology
    \* table (line 28); and its surroundings: the worksheet's records, the
    \* files under data/
    worksheet, df_clients, sheet, files,
    \* a request: where its handler stands, its session, its answer
    pc, session, response,
    \* a load_sensor_data call: its arguments, what the sources answered, its
    \* result; and the result of normalising that result again
    req, io, out, renorm,
    \* dashboard()'s locals; bound holds the names that are assigned
    locations, li, booths_in_loc, bi, alert_count, location_summaries,
    latest, loc, booth_name, bound, active_alerts, system_status, kpi_data, now,
    \* history: what each load of dashboard()'s loop returned
    fetched,
    \* booth()'s locals
    reading, historical_context

envVars == <<worksheet, df_clients, sheet, files>>

loadVars == <<req, io, out, renorm>>

dashVars == <<locations, li, booths_in_loc, bi, alert_count, location_summaries,
              latest, loc, booth_name, bound, active_alerts, system_status,
              kpi_data, fetched>>

boothVars == <<reading, historical_context>>

vars == <<envVars, pc, session, response, now, loadVars, dashVars, boothVars>>

\* ------------------------------------------------------------------ bounds

\* The longest raw table the record sources hold.
MaxLen == 3

\* ------------------------------------------------------------------- cells

Num(v) == [k |-> "num", v |-> v]
Ts(v) == [k |-> "ts", v |-> v]
Txt(v) == [k |-> "txt", v |-> v]
Cat(v) == [k |-> "cat", v |-> v]
Junk == [k |-> "junk", v |-> 0]
None == [k |-> "none", v |-> 0]
NaN == [k |-> "nan", v |-> 0]
NaT == [k |-> "nat", v |-> 0]

\* ------------------------------------------------------------ DataFrames

EmptyDF == [cols |-> {}, rows |-> <<>>]

\* df.empty: an axis of length 0.
empty(df) == df.cols = {} \/ Len(df.rows) = 0

required_cols == <<"time", "temp_c", "humidity_pct", "co2_ppm", "pir_state">>

numeric_cols == <<"temp_c", "humidity_pct", "co2_ppm">>

Range(s) == {s[i] : i \in 1..Len(s)}

\* pd.to_numeric(col, errors='coerce') on one cell.
to_numeric(c) ==
    CASE c.k = "num" -> c
      [] c.k = "txt" -> Num(c.v)
      [] OTHER -> NaN

\* pd.to_datetime(col, errors='coerce') on one cell.
to_datetime(c) ==
    CASE c.k = "ts" -> c
      [] c.k = "txt" -> Ts(c.v)
      [] OTHER -> NaT

\* Step 1 of load_sensor_data: df[col] = None for each required column the
\* frame lacks.
fill_required(df) ==
    LET cs == df.cols \cup Range(required_cols)
    IN [cols |-> cs,
        rows |-> [i \in 1..Len(df.rows) |->
                    [c \in cs |-> IF c \in df.cols THEN df.rows[i][c] ELSE None]]]

\* Step 2 of load_sensor_data: each numeric column that exists is coerced.
coerce_numeric(df) ==
    [cols |-> df.cols,
     rows |-> [i \in 1..Len(df.rows) |->
                 [c \in df.cols |->
                    IF c \in Range(numeric_cols)
                    THEN to_numeric(df.rows[i][c]) ELSE df.rows[i][c]]]]

\* if 'time' in df.columns: df['time'] = pd.to_datetime(df['time'], ...)
coerce_time(df) ==
    [cols |-> df.cols,
     rows |-> [i \in 1..Len(df.rows) |->
                 [c \in df.cols |->
                    IF c = "time"
                    THEN to_datetime(df.rows[i][c]) ELSE df.rows[i][c]]]]

\* A sort that leaves the rows as they came: x goes last whatever its key.
insert_last(x, t) == {Append(t, x)}

InsertAt(t, p, x) == SubSeq(t, 1, p) \o <<x>> \o SubSeq(t, p + 1, Len(t))

\* The places where x may go in the sorted t: after every smaller key and
\* before every larger one.  Among equal keys the place is not determined:
\* sort_values defaults to kind='quicksort', which is not stable.
insert_sorted(x, t) ==
    {InsertAt(t, p, x) :
       p \in {q \in 0..Len(t) :
                /\ \A i \in 1..q : t[i].time.v <= x.time.v
                /\ \A i \in (q + 1)..Len(t) : x.time.v <= t[i].time.v}}

RECURSIVE argsort(_)
\* The orders an ascending sort of the rows by their (present) time can give.
argsort(s) ==
    IF s = <<>> THEN {<<>>}
    ELSE UNION {insert_sorted(s[Len(s)], t) : t \in argsort(SubSeq(s, 1, Len(s) - 1))}

IsNaT(r) == r.time.k = "nat"

NotNaT(r) == r.time.k # "nat"

\* df.sort_values(by='time').reset_index(drop=True): KeyError without the
\* column; else the rows with a time in ascending order, then (na_position
\* 'last') the rows whose time is NaT in the order they had.
sort_values(df) ==
    IF "time" \notin df.cols
    THEN {[raised |-> TRUE, df |-> EmptyDF]}
    ELSE {[raised |-> FALSE,
           df |-> [cols |-> df.cols, rows |-> p \o SelectSeq(df.rows, IsNaT)]] :
            p \in argsort(SelectSeq(df.rows, NotNaT))}

\* Lines 87-108 of load_sensor_data, on a frame that is not None: the
\* outcomes [raised, isNone, df].
normalize(df) ==
    IF empty(df)
    THEN {[raised |-> FALSE, isNone |-> TRUE, df |-> EmptyDF]}
    ELSE {[raised |-> s.raised, isNone |-> FALSE, df |-> s.df] :
            s \in sort_values(coerce_time(coerce_numeric(fill_required(df))))}

\* ----------------------------------------------------------------- strings

Adelaide == <<"Adelaide">>
GoldCoast == <<"Gold", " ", "Coast">>
BoothA == <<"Booth", "A">>
Booth_A == <<"Booth", " ", "A">>
Booth_B == <<"Booth", " ", "B">>

NotSpace(c) == c # " "

\* s.replace(' ', '')
strip_spaces(s) == SelectSeq(s, NotSpace)

\* os.path.join('data', f"{loc_name.replace(' ', '')}_{clean_booth_name}.csv")
filepath(loc_name, clean_booth_name) ==
    <<"data", "/">> \o strip_spaces(loc_name) \o <<"_">> \o clean_booth_name \o <<".csv">>

\* The name of the worksheet opened at start-up, as a source read.
SheetName == <<"Space Assessor", "Adelaide_BoothA">>

\* ------------------------------------------------------------ record source

\* A fetch's result: None, or a frame; reads are the sources it read.
ReturnNone(rd) == [raised |-> FALSE, isNone |-> TRUE, df |-> EmptyDF, reads |-> rd]

\* get_data_from_sheet: None without a worksheet; inside the try, the read
\* (x.net_ok: get_all_records returned), the coercion of 'time' when the
\* column is there, the sort; any exception is caught and gives None.
get_data_from_sheet(x) ==
    IF ~worksheet THEN {ReturnNone({})}
    ELSE IF ~x.net_ok THEN {ReturnNone({SheetName})}
    ELSE LET df == IF "time" \in sheet.cols THEN coerce_time(sheet) ELSE sheet
         IN {IF s.raised THEN ReturnNone({SheetName})
             ELSE [raised |-> FALSE, isNone |-> FALSE, df |-> s.df,
                   reads |-> {SheetName}] : s \in sort_values(df)}

\* The part of load_sensor_data after the source is read (lines 87-110).
load_tail(g) ==
    IF g.isNone THEN {g}
    ELSE {[raised |-> n.raised, isNone |-> n.isNone, df |-> n.df, reads |-> g.reads] :
            n \in normalize(g.df)}

\* Line 76 without its test of the booth: every booth of Adelaide is taken
\* for the live one.
is_live_pair_any_booth(loc_name, clean_booth_name) == loc_name = Adelaide

\* Whether the pair is the one served by the worksheet (line 76).
is_live_pair(loc_name, clean_booth_name) ==
    loc_name = Adelaide /\ clean_booth_name = BoothA

\* The frame read at lines 76-85, before normalisation.  x.exists is
\* os.path.exists(filepath), x.parse_ok whether pd.read_csv returned.
load_source(loc_name, b_name, x) ==
    LET clean_booth_name == strip_spaces(b_name)
        fp == filepath(loc_name, clean_booth_name)
    IN IF is_live_pair(loc_name, clean_booth_name)
       THEN get_data_from_sheet(x)
       ELSE IF ~x.exists THEN {ReturnNone({})}
       ELSE IF ~x.parse_ok THEN {ReturnNone({fp})}
       ELSE {[raised |-> FALSE, isNone |-> FALSE, df |-> files[fp], reads |-> {fp}]}

\* load_sensor_data(loc_name, booth_name): the outcomes it can have.
load_sensor_data(loc_name, b_name, x) ==
    UNION {load_tail(g) : g \in load_source(loc_name, b_name, x)}

\* --------------------------------------------------------------- the inputs

Locations == {Adelaide, GoldCoast}
Booths == {Booth_A, BoothA, Booth_B}
FileKeys == {filepath(l, strip_spaces(b)) : l \in Locations, b \in Booths}
Sources == FileKeys \cup {SheetName}

IOs == [net_ok : BOOLEAN, exists : BOOLEAN, parse_ok : BOOLEAN]

TimeCells == {Txt(1), Txt(2), Junk}
TempCells == {Num(200), Junk}

\* The cells a raw source holds in a column.
CellsOf(c) ==
    CASE c = "time" -> TimeCells
      [] c = "temp_c" -> TempCells
      [] c = "humidity_pct" -> {Num(500)}
      [] c = "co2_ppm" -> {Txt(4000)}
      [] c = "pir_state" -> {Cat(1)}
      [] OTHER -> {Num(7)}

\* The shapes of a raw source: every required column; all but time; time
\* alone; and a shape that shares no column with the schema.  Each required
\* column is lacking in one of them.
ColSets ==
    {Range(required_cols), Range(required_cols) \ {"time"}, {"time"}, {"voc"}}

RowsOf(cs) == {f \in [cs -> UNION {CellsOf(c) : c \in cs}] : \A c \in cs : f[c] \in CellsOf(c)}

RawTables ==
    UNION {{[cols |-> cs, rows |-> r] : r \in UNION {[1..n -> RowsOf(cs)] : n \in 0..MaxLen}} :
             cs \in ColSets}

\* What the sources other than the one under test hold.
Decoy == [cols |-> {"time", "temp_c"},
          rows |-> <<[time |-> Txt(9), temp_c |-> Num(990)]>>]

NoIO == [net_ok |-> FALSE, exists |-> FALSE, parse_ok |-> FALSE]

NoOut == ReturnNone({})


GoldCoastBoothACsv == <<"data", "/", "Gold", "Coast", "_", "Booth", "A", ".csv">>
AdelaideBoothBCsv == <<"data", "/", "Adelaide", "_", "Booth", "B", ".csv">>

NoSession == [logged_in |-> FALSE, role |-> "", client_name |-> ""]

NoResponse == [kind |-> "none", what |-> ""]

NoRow == [c \in Range(required_cols) |-> None]

NoKpi == [temp_labels |-> <<>>, temp_values |-> <<>>, humidity_values |-> <<>>,
          occupancy_counts |-> {}]

\* The clock's reading before any handler has read it.
OneHour == 60 * 60
OneDay == 24 * OneHour
Now0 == 3 * OneDay

IdleRequest ==
    /\ pc = "idle"
    /\ session = NoSession
    /\ response = NoResponse
    /\ now = Now0

IdleLoad ==
    /\ req = <<Adelaide, Booth_A>>
    /\ io = NoIO
    /\ out = NoOut
    /\ renorm = NoOut

IdleDashboard ==
    /\ locations = <<>>
    /\ li = 1
    /\ booths_in_loc = <<>>
    /\ bi = 1
    /\ alert_count = 0
    /\ location_summaries = <<>>
    /\ latest = NoRow
    /\ loc = <<>>
    /\ booth_name = <<>>
    /\ bound = {}
    /\ active_alerts = <<>>
    /\ system_status = <<>>
    /\ kpi_data = NoKpi
    /\ fetched = <<>>

IdleBooth ==
    /\ reading = <<>>
    /\ historical_context = <<>>

\* ------------------------------------------------- fetch and normalisation

InitNorm ==
    /\ worksheet \in BOOLEAN
    /\ \E raw \in RawTables, src \in {SheetName, GoldCoastBoothACsv} :
         /\ sheet = IF src = SheetName THEN raw ELSE Decoy
         /\ files = [k \in FileKeys |-> IF k = src THEN raw ELSE Decoy]
    /\ df_clients = <<>>
    /\ IdleRequest
    /\ IdleLoad
    /\ IdleDashboard
    /\ IdleBooth

\* A caller's load_sensor_data(loc_name, booth_name).
Load ==
    /\ pc = "idle"
    /\ \E l \in Locations, b \in Booths, x \in IOs :
         /\ req' = <<l, b>>
         /\ io' = x
         /\ out' \in load_sensor_data(l, b, x)
    /\ pc' = "loaded"
    /\ UNCHANGED <<envVars, session, response, now, renorm, dashVars, boothVars>>

\* The steps of lines 87-108 applied to the frame a load returned.
Renormalize ==
    /\ pc = "loaded"
    /\ ~out.raised /\ ~out.isNone
    /\ renorm' \in load_tail(out)
    /\ pc' = "renormalized"
    /\ UNCHANGED <<envVars, session, response, now, req, io, out, dashVars, boothVars>>

NextNorm == Load \/ Renormalize

SpecNorm == InitNorm /\ [][NextNorm]_vars

\* ---------------------------------------------------------------- topology

Client(c, l, b) == [client_name |-> c, location |-> l, booth |-> b]

RECURSIVE unique(_)
\* Series.unique(): the values in order of first appearance.
unique(s) ==
    IF s = <<>> THEN <<>>
    ELSE LET u == unique(SubSeq(s, 1, Len(s) - 1))
             x == s[Len(s)]
         IN IF x \in Range(u) THEN u ELSE Append(u, x)

Column(df, c) == [i \in 1..Len(df) |-> df[i][c]]

\* get_locations(df_clients, client_name); "" stands for None.
get_locations(df, client_name) ==
    IF client_name # ""
    THEN unique(Column(SelectSeq(df, LAMBDA r : r.client_name = client_name), "location"))
    ELSE unique(Column(df, "location"))

\* df_clients[df_clients['location'] == loc]['booth'].unique().tolist()
booths_of(df, l) == unique(Column(SelectSeq(df, LAMBDA r : r.location = l), "booth"))

\* client_name if session.get('role') == 'client' else None
client_filter(s) == IF s.role = "client" THEN s.client_name ELSE ""

\* --------------------------------------------------------------- evaluators

Last(s) == s[Len(s)]

\* val >= limit where the code has val > limit.
gt_or_equal(val, limit) == val.k = "num" /\ val.v >= limit * 10

\* val > limit, for a cell of a normalised frame: NaN compares False.
gt(val, limit) == val.k = "num" /\ val.v > limit * 10

is_not_None(val) == val.k # "none"

\* int(co2_val): truncation towards zero, in whole units.
int(val) ==
    [k |-> "int", v |-> IF val.v >= 0 THEN val.v \div 10 ELSE -((-val.v) \div 10)]

\* Lines 164: whether the booth's latest reading counts for the summary.
counts_as_alert(row) ==
    \/ is_not_None(row.co2_ppm) /\ gt(row.co2_ppm, 1000)
    \/ is_not_None(row.temp_c) /\ gt(row.temp_c, 25)

\* Lines 169-173: the alerts appended for a latest reading.
evaluate_alerts(row, l, b) ==
    (IF is_not_None(row.co2_ppm) /\ gt(row.co2_ppm, 1000)
     THEN <<[kind |-> "HighCO2", location |-> l, booth |-> b, value |-> int(row.co2_ppm)]>>
     ELSE <<>>)
    \o
    (IF is_not_None(row.temp_c) /\ gt(row.temp_c, 25)
     THEN <<[kind |-> "HighTemp", location |-> l, booth |-> b, value |-> row.temp_c]>>
     ELSE <<>>)

Never == [k |-> "never", v |-> 0]

\* last_seen.strftime('%Y-%m-%d %H:%M'): the timestamp cut to the minute.
strftime_minute(ts) == [k |-> "str", v |-> (ts.v \div 60) * 60]

\* bool(last_seen): None is false; a Timestamp is true, and so is NaT,
\* whose class defines no truth value of its own.
truthy(val) == val.k # "none"

\* Lines 176-184: the status entry for a latest reading at time t.  NaT
\* passes the test at line 177, compares False at line 180 and raises
\* ValueError from strftime at line 182.
evaluate_status(row, t, l, b) ==
    LET last_seen == row.time
    IN IF truthy(last_seen)
       THEN IF last_seen.k = "ts"
            THEN [raised |-> FALSE,
                  entry |-> [location |-> l, booth |-> b,
                             last_seen |-> strftime_minute(last_seen),
                             status |-> IF t - last_seen.v > OneHour
                                        THEN "Offline" ELSE "Online"]]
            ELSE [raised |-> TRUE,
                  entry |-> [location |-> l, booth |-> b, last_seen |-> Never,
                             status |-> "Online"]]
       ELSE [raised |-> FALSE,
             entry |-> [location |-> l, booth |-> b, last_seen |-> Never,
                        status |-> "Offline"]]

\* df.tail(n)
tail(rows, n) == IF Len(rows) <= n THEN rows ELSE SubSeq(rows, Len(rows) - n + 1, Len(rows))

\* Lines 190-196: the spotlight's series.
kpi_of(df) ==
    LET recent_data == tail(df.rows, 24)
        pir == Column(recent_data, "pir_state")
    IN [temp_labels |-> [i \in 1..Len(recent_data) |->
                           IF recent_data[i].time.k = "ts"
                           THEN [k |-> "str", v |-> ((recent_data[i].time.v % OneDay) \div 60) * 60]
                           ELSE NaN],
        temp_values |-> Column(recent_data, "temp_c"),
        humidity_values |-> Column(recent_data, "humidity_pct"),
        occupancy_counts |->
            {<<v, Cardinality({i \in 1..Len(pir) : pir[i] = v})>> :
               v \in {c \in Range(pir) : c.k \notin {"none", "nan"}}}]

\* ---------------------------------------------------- dashboard(): inputs

Sessions ==
    {NoSession,
     [logged_in |-> TRUE, role |-> "admin", client_name |-> ""],
     [logged_in |-> TRUE, role |-> "client", client_name |-> "acme"],
     [logged_in |-> TRUE, role |-> "client", client_name |-> "globex"],
     [logged_in |-> TRUE, role |-> "client", client_name |-> "initech"]}

Topologies ==
    {<<Client("acme", Adelaide, Booth_A), Client("acme", Adelaide, Booth_B),
       Client("globex", GoldCoast, Booth_A)>>,
     <<Client("acme", GoldCoast, Booth_A), Client("globex", GoldCoast, Booth_A),
       Client("globex", Adelaide, Booth_A)>>,
     <<>>}

Reading(t, temp, co2) ==
    [time |-> t, temp_c |-> temp, humidity_pct |-> Num(500), co2_ppm |-> co2,
     pir_state |-> Cat(1)]

Table(rows) == [cols |-> Range(required_cols), rows |-> rows]

\* The time every dated reading of these tables carries: one hour before
\* the earlier of the two readings of the clock.
Seen == Txt(Now0 - OneHour)

Nows == {Now0, Now0 + 1}

\* Raw tables whose latest reading is at, just above and well above each
\* threshold, lacks a value, lacks its time; a table whose dated row alarms
\* while an undated one does not; a table without rows; a table of another
\* shape.
DashTables ==
    {Table(<<Reading(Seen, Num(250), Num(10000))>>),
     Table(<<Reading(Seen, Num(251), Num(10000))>>),
     Table(<<Reading(Seen, Num(250), Txt(10010))>>),
     Table(<<Reading(Seen, Num(250), Num(10005))>>),
     Table(<<Reading(Seen, Num(251), Num(10019))>>),
     Table(<<Reading(Seen, Junk, Junk)>>),
     Table(<<Reading(Junk, Num(251), Num(10010))>>),
     Table(<<Reading(Junk, Num(250), Num(10000)), Reading(Seen, Num(251), Num(10010))>>),
     Table(<<>>),
     [cols |-> {"voc"}, rows |-> <<[voc |-> Num(7)]>>]}

FewTables ==
    {Table(<<Reading(Seen, Num(250), Num(10000))>>),
     Table(<<Reading(Seen, Num(300), Num(20000))>>)}

\* ------------------------------------------------------------- dashboard()

InitDash ==
    /\ worksheet \in BOOLEAN
    /\ df_clients \in Topologies
    /\ sheet \in DashTables
    /\ \E t1 \in DashTables, t2 \in FewTables :
         files = [k \in FileKeys |->
                    IF k = GoldCoastBoothACsv THEN t1
                    ELSE IF k = AdelaideBoothBCsv THEN t2 ELSE Decoy]
    /\ IdleRequest
    /\ IdleLoad
    /\ IdleDashboard
    /\ IdleBooth

Raise(what) == [kind |-> "raise", what |-> what]

\* Lines 146-154: the login check, the locations, the empty results.
DashboardBegin ==
    /\ pc = "idle"
    /\ \E s \in Sessions :
         /\ session' = s
         /\ IF ~s.logged_in
            THEN /\ response' = [kind |-> "redirect", what |-> "login"]
                 /\ pc' = "done"
                 /\ UNCHANGED locations
            ELSE /\ locations' = get_locations(df_clients, client_filter(s))
                 /\ pc' = "for_loc"
                 /\ UNCHANGED response
    /\ UNCHANGED <<envVars, now, loadVars, boothVars, li, booths_in_loc, bi,
                   alert_count, location_summaries, latest, loc, booth_name, bound,
                   active_alerts, system_status, kpi_data, fetched>>

\* Lines 155-157: the next location; after the last, the code below the loop.
DashboardLoc ==
    /\ pc = "for_loc"
    /\ li <= Len(locations)
    /\ loc' = locations[li]
    /\ bound' = bound \cup {"loc"}
    /\ alert_count' = 0
    /\ booths_in_loc' = booths_of(df_clients, locations[li])
    /\ bi' = 1
    /\ pc' = "for_booth"
    /\ UNCHANGED <<envVars, session, response, now, loadVars, boothVars, locations, li,
                   location_summaries, latest, booth_name, active_alerts,
                   system_status, kpi_data, fetched>>

DashboardLocsDone ==
    /\ pc = "for_loc"
    /\ li > Len(locations)
    /\ pc' = "alerts"
    /\ UNCHANGED <<envVars, session, response, now, loadVars, boothVars, dashVars>>

\* A count of alerts instead of booths: a booth above both thresholds adds 2.
count_each_alert(n, r) ==
    IF ~r.isNone /\ ~empty(r.df)
    THEN n + Len(evaluate_alerts(Last(r.df.rows), <<>>, <<>>))
    ELSE n

\* alert_count after a booth's load (lines 160-165).
count_booth(n, r) ==
    IF ~r.isNone /\ ~empty(r.df) /\ counts_as_alert(Last(r.df.rows)) THEN n + 1 ELSE n

\* Lines 158-165: one booth of the location: its load, latest and the count.
DashboardBooth ==
    /\ pc = "for_booth"
    /\ bi <= Len(booths_in_loc)
    /\ booth_name' = booths_in_loc[bi]
    /\ \E x \in IOs : \E r \in load_sensor_data(loc, booths_in_loc[bi], x) :
         /\ fetched' = Append(fetched, [location |-> loc, booth |-> booths_in_loc[bi],
                                        isNone |-> r.isNone, df |-> r.df])
         /\ IF r.raised
            THEN /\ response' = Raise("load_sensor_data")
                 /\ pc' = "done"
                 /\ UNCHANGED <<latest, alert_count, bi>>
                 /\ bound' = bound \cup {"booth_name"}
            ELSE /\ IF ~r.isNone /\ ~empty(r.df)
                    THEN /\ latest' = Last(r.df.rows)
                         /\ bound' = bound \cup {"booth_name", "latest"}
                    ELSE /\ UNCHANGED latest
                         /\ bound' = bound \cup {"booth_name"}
                 /\ alert_count' = count_booth(alert_count, r)
                 /\ bi' = bi + 1
                 /\ UNCHANGED <<response, pc>>
    /\ UNCHANGED <<envVars, session, now, loadVars, boothVars, locations, li,
                   booths_in_loc, location_summaries, loc, active_alerts,
                   system_status, kpi_data>>

\* Line 166: the location's count, after its last booth.
DashboardLocDone ==
    /\ pc = "for_booth"
    /\ bi > Len(booths_in_loc)
    /\ location_summaries' =
         [k \in DOMAIN location_summaries \cup {loc} |->
            IF k = loc THEN alert_count ELSE location_summaries[k]]
    /\ li' = li + 1
    /\ pc' = "for_loc"
    /\ UNCHANGED <<envVars, session, response, now, loadVars, boothVars, locations,
                   booths_in_loc, bi, alert_count, latest, loc, booth_name, bound,
                   active_alerts, system_status, kpi_data, fetched>>

\* Lines 169-173, below the loops: the alerts of whatever latest, loc and
\* booth_name hold; UnboundLocalError when latest was never assigned.
DashboardAlerts ==
    /\ pc = "alerts"
    /\ IF "latest" \in bound
       THEN /\ active_alerts' = active_alerts \o evaluate_alerts(latest, loc, booth_name)
            /\ pc' = "status"
            /\ UNCHANGED response
       ELSE /\ response' = Raise("UnboundLocalError")
            /\ pc' = "done"
            /\ UNCHANGED active_alerts
    /\ UNCHANGED <<envVars, session, now, loadVars, boothVars, locations, li,
                   booths_in_loc, bi, alert_count, location_summaries, latest, loc,
                   booth_name, bound, system_status, kpi_data, fetched>>

\* Lines 176-184: the one status entry; datetime.now() is read here.
DashboardStatus ==
    /\ pc = "status"
    /\ \E t \in Nows :
         /\ now' = t
         /\ LET r == evaluate_status(latest, t, loc, booth_name)
            IN IF r.raised
               THEN /\ response' = Raise("ValueError")
                    /\ pc' = "done"
                    /\ UNCHANGED system_status
               ELSE /\ system_status' = Append(system_status, r.entry)
                    /\ pc' = "spotlight"
                    /\ UNCHANGED response
    /\ UNCHANGED <<envVars, session, loadVars, boothVars, locations, li,
                   booths_in_loc, bi, alert_count, location_summaries, latest, loc,
                   booth_name, bound, active_alerts, kpi_data, fetched>>

\* Lines 187-197: the spotlight's load and the rendered page.
DashboardSpotlight ==
    /\ pc = "spotlight"
    /\ \E x \in IOs : \E r \in load_sensor_data(Adelaide, Booth_A, x) :
         IF r.raised
         THEN /\ response' = Raise("load_sensor_data")
              /\ UNCHANGED kpi_data
         ELSE /\ kpi_data' = IF ~r.isNone /\ ~empty(r.df) THEN kpi_of(r.df) ELSE NoKpi
              /\ response' = [kind |-> "render", what |-> "dashboard.html"]
    /\ pc' = "done"
    /\ UNCHANGED <<envVars, session, now, loadVars, boothVars, locations, li,
                   booths_in_loc, bi, alert_count, location_summaries, latest, loc,
                   booth_name, bound, active_alerts, system_status, fetched>>

NextDash ==
    \/ DashboardBegin
    \/ DashboardLoc
    \/ DashboardLocsDone
    \/ DashboardBooth
    \/ DashboardLocDone
    \/ DashboardAlerts
    \/ DashboardStatus
    \/ DashboardSpotlight

SpecDash == InitDash /\ [][NextDash]_vars

\* ------------------------------------------------------------------ booth()

RECURSIVE sum(_)
sum(cells) == IF cells = <<>> THEN 0 ELSE cells[1].v + sum(Tail(cells))

IsNum(c) == c.k = "num"

\* Series.mean(): the mean of the values that are not NaN, as the fraction
\* n / d; NaN when there is none.
mean(cells) ==
    LET present == SelectSeq(cells, IsNum)
    IN IF present = <<>> THEN [k |-> "nan", n |-> 0, d |-> 1]
       ELSE [k |-> "ratio", n |-> sum(present), d |-> Len(present)]

\* val - m for a cell and a mean: NaN when either is NaN.
minus_mean(val, m) ==
    IF val.k = "num" /\ m.k = "ratio"
    THEN [k |-> "ratio", n |-> val.v * m.d - m.n, d |-> m.d]
    ELSE [k |-> "nan", n |-> 0, d |-> 1]

\* df_booth_data[df_booth_data['time'] < (datetime.now() - timedelta(days=1))]
older_than_a_day(rows, t) ==
    SelectSeq(rows, LAMBDA r : r.time.k = "ts" /\ r.time.v < t - OneDay)

\* Whether a key of reading gets its change computed (lines 230, 232).
has_value(rd, key) == key \in DOMAIN rd /\ is_not_None(rd[key])

\* Lines 229-233: the changes against the rows older than a day.
changes(rd, yesterday_data) ==
    LET keys == (IF has_value(rd, "temp_c") THEN {"temp_change"} ELSE {})
                  \cup (IF has_value(rd, "humidity_pct") THEN {"hum_change"} ELSE {})
    IN IF yesterday_data = <<>> THEN <<>>
       ELSE [key \in keys |->
               IF key = "temp_change"
               THEN minus_mean(rd["temp_c"], mean(Column(yesterday_data, "temp_c")))
               ELSE minus_mean(rd["humidity_pct"],
                               mean(Column(yesterday_data, "humidity_pct")))]

\* Lines 236-239: whether a client may see the booth.
denied(s, loc_name, b_name) ==
    /\ s.role = "client"
    /\ b_name \notin Range(Column(SelectSeq(df_clients,
                                           LAMBDA r : /\ r.client_name = s.client_name
                                                      /\ r.location = loc_name),
                                  "booth"))

\* A reading's time: a day before the earlier reading of the clock (not older
\* than a day then, older at the later reading), or unparsable.
BoothTimes == {Txt(Now0 - OneDay), Junk}
BoothTemps == {Num(200), Num(220), Num(230), Junk}

BoothRows ==
    {[time |-> t, temp_c |-> c, humidity_pct |-> Num(500), co2_ppm |-> Num(4000),
      pir_state |-> Cat(1)] : t \in BoothTimes, c \in BoothTemps}

BoothTables == {Table(r) : r \in UNION {[1..n -> BoothRows] : n \in 0..MaxLen}}

InitBooth ==
    /\ worksheet \in BOOLEAN
    /\ df_clients = <<Client("acme", Adelaide, Booth_A), Client("acme", Adelaide, Booth_B),
                      Client("globex", GoldCoast, Booth_A)>>
    /\ sheet = Decoy
    /\ \E t \in BoothTables :
         files = [k \in FileKeys |-> IF k = GoldCoastBoothACsv THEN t ELSE Decoy]
    /\ IdleRequest
    /\ IdleLoad
    /\ IdleDashboard
    /\ IdleBooth

\* booth(loc_name, booth_name), lines 213-250: the login check; the first
\* load, reading and the changes; the access check; the second load and
\* the reading rendered.  The second load meets the sources as the first
\* did, or finds them gone.
Booth ==
    /\ pc = "idle"
    /\ \E s \in Sessions, l \in {GoldCoast, Adelaide}, t \in Nows, x1 \in IOs :
       \E x2 \in {x1, NoIO} :
       \E r1 \in load_sensor_data(l, Booth_A, x1), r2 \in load_sensor_data(l, Booth_A, x2) :
         /\ session' = s
         /\ req' = <<l, Booth_A>>
         /\ IF ~s.logged_in
            THEN /\ response' = [kind |-> "redirect", what |-> "login"]
                 /\ UNCHANGED <<now, io, out, reading, historical_context>>
            ELSE /\ now' = t
                 /\ io' = x1
                 /\ out' = r1
                 /\ historical_context' =
                      IF ~r1.isNone /\ ~empty(r1.df)
                      THEN changes(Last(r1.df.rows), older_than_a_day(r1.df.rows, t))
                      ELSE <<>>
                 /\ IF denied(s, l, Booth_A)
                    THEN /\ response' = [kind |-> "403", what |-> "Access Denied"]
                         /\ reading' = IF ~r1.isNone /\ ~empty(r1.df)
                                       THEN Last(r1.df.rows) ELSE <<>>
                    ELSE /\ response' = [kind |-> "render", what |-> "booth.html"]
                         /\ reading' = IF ~r2.isNone /\ ~empty(r2.df)
                                       THEN Last(r2.df.rows) ELSE <<>>
    /\ pc' = "done"
    /\ UNCHANGED <<envVars, renorm, dashVars>>

\* The request is over; the next one starts from the handler's entry.
Respond ==
    /\ pc = "done"
    /\ pc' = "idle"
    /\ session' = NoSession
    /\ response' = NoResponse
    /\ now' = Now0
    /\ req' = <<Adelaide, Booth_A>>
    /\ io' = NoIO
    /\ out' = NoOut
    /\ reading' = <<>>
    /\ historical_context' = <<>>
    /\ UNCHANGED <<envVars, renorm, dashVars>>

NextBooth == Booth \/ Respond

SpecBooth == InitBooth /\ [][NextBooth]_vars

\* ------------------------------------------- claims on the record source

\* The raw table a source holds.
Source(s) == IF s = SheetName THEN sheet ELSE files[s]

\* Whether the read of source s returned (no exception inside the try).
ReadOk(s) == IF s = SheetName THEN io.net_ok ELSE io.parse_ok

IsMissing(c) == c.k \in {"none", "nan", "nat"}

Count(s, r) == Cardinality({i \in 1..Len(s) : s[i] = r})

SameBag(a, b) == \A r \in Range(a) \cup Range(b) : Count(a, r) = Count(b, r)

\* The source each pair is to be served from, written out.
ExpectedSource(pair) ==
    CASE pair = <<Adelaide, Booth_A>> -> SheetName
      [] pair = <<Adelaide, BoothA>> -> SheetName
      [] pair = <<Adelaide, Booth_B>> -> <<"data", "/", "Adelaide", "_", "Booth", "B", ".csv">>
      [] pair = <<GoldCoast, Booth_A>> -> <<"data", "/", "Gold", "Coast", "_", "Booth", "A", ".csv">>
      [] pair = <<GoldCoast, BoothA>> -> <<"data", "/", "Gold", "Coast", "_", "Booth", "A", ".csv">>
      [] pair = <<GoldCoast, Booth_B>> -> <<"data", "/", "Gold", "Coast", "_", "Booth", "B", ".csv">>

\* C5: schema completion is total.  Whenever a load read a non-empty raw
\* table, from the worksheet or from a file, the result is a frame (not
\* None, no exception) and every required field the raw table lacks is in it
\* with a missing value on every row.
C5_SchemaCompletionTotal ==
    pc = "loaded" =>
      \A s \in out.reads :
        (ReadOk(s) /\ ~empty(Source(s))) =>
          /\ ~out.raised
          /\ ~out.isNone
          /\ \A f \in Range(required_cols) \ Source(s).cols :
               /\ f \in out.df.cols
               /\ \A i \in 1..Len(out.df.rows) : IsMissing(out.df.rows[i][f])

\* C7: fetch never raises; it is None when the file does not exist, when
\* reading it fails, when the worksheet is uninitialised and when the
\* worksheet's read fails; the (Adelaide, BoothA) pair reads the worksheet
\* only, every other pair only its own file data/{location}_{booth}.csv with
\* the spaces stripped.
C7_FetchNeverRaises ==
    pc = "loaded" =>
      /\ ~out.raised
      /\ out.reads \subseteq {ExpectedSource(req)}
      /\ ExpectedSource(req) = SheetName =>
           /\ (~worksheet \/ ~io.net_ok) => out.isNone
           /\ (worksheet <=> out.reads # {})
      /\ ExpectedSource(req) # SheetName =>
           /\ (~io.exists \/ ~io.parse_ok) => out.isNone
           /\ (io.exists <=> out.reads # {})

\* C7's case: a file that exists and fails to parse gives None, and a pair
\* with spaces in both names read its stripped key.
C7_Witness ==
    /\ pc = "loaded"
    /\ req = <<GoldCoast, Booth_A>>
    /\ io.exists /\ ~io.parse_ok
    /\ out.isNone
    /\ out.reads = {<<"data", "/", "Gold", "Coast", "_", "Booth", "A", ".csv">>}

\* The rows of the raw table a load read, with the schema completed and the
\* cells coerced, before the sort.
CoercedInput ==
    UNION {{coerce_time(coerce_numeric(fill_required(Source(s)))).rows} : s \in out.reads}

\* C8: the normalised output is sorted non-decreasing by time over the rows
\* whose time is present, every row with a missing time comes after every
\* row with a present one, and the output holds exactly the input's records.
C8_SortedByTime ==
    (pc = "loaded" /\ ~out.isNone) =>
      LET rows == out.df.rows
      IN /\ \A i, j \in 1..Len(rows) :
              (i < j /\ NotNaT(rows[i]) /\ NotNaT(rows[j])) =>
                rows[i].time.v <= rows[j].time.v
         /\ \A i, j \in 1..Len(rows) : (i < j /\ IsNaT(rows[i])) => IsNaT(rows[j])
         /\ \A inp \in CoercedInput : SameBag(inp, rows)

\* C8's case: a raw table whose first row has no parsable time and whose
\* next two are in descending order was loaded.
C8_Witness ==
    /\ pc = "loaded" /\ ~out.isNone
    /\ \E s \in out.reads :
         /\ Len(Source(s).rows) = 3
         /\ "time" \in Source(s).cols
         /\ Source(s).rows[1]["time"] = Junk
         /\ Source(s).rows[2]["time"] = Txt(2)
         /\ Source(s).rows[3]["time"] = Txt(1)
    /\ out.df.rows[1].time = Ts(1)

\* C9: normalisation is idempotent.  The steps applied to a normalised
\* sequence give a sequence identical to it, position by position.
C9_NormalizeIdempotent ==
    pc = "renormalized" => (~renorm.raised /\ ~renorm.isNone /\ renorm.df = out.df)

\* --------------------------------------------------- claims on dashboard()

HasData(e) == ~e.isNone /\ ~empty(e.df)

\* The evaluation ran to its end for a logged-in requester.
Evaluated == pc = "done" /\ session.logged_in

\* Lines 169-173 have run.
AlertsEvaluated ==
    \/ pc \in {"status", "spotlight"}
    \/ Evaluated /\ response.what \in {"dashboard.html", "ValueError"}

\* The alert events the thresholds ask for, for one reading of one booth:
\* CO2 above 1000 ppm with the ppm truncated, temperature above 25 degrees
\* with the value as read (cells hold tenths).
SpecAlerts(row, l, b) ==
    {[kind |-> "HighCO2", location |-> l, booth |-> b,
      value |-> [k |-> "int", v |-> row.co2_ppm.v \div 10]] :
        x \in {y \in {row.co2_ppm} : y.k = "num" /\ y.v > 10000}}
    \cup
    {[kind |-> "HighTemp", location |-> l, booth |-> b, value |-> row.temp_c] :
        x \in {y \in {row.temp_c} : y.k = "num" /\ y.v > 250}}

\* The liveness state the age of a reading asks for.
SpecState(row, t) ==
    IF row.time.k # "ts" THEN "Offline"
    ELSE IF t - row.time.v > 3600 THEN "Offline" ELSE "Online"

AlertsFor(l, b) ==
    {active_alerts[j] : j \in {k \in DOMAIN active_alerts :
                                 active_alerts[k].location = l /\ active_alerts[k].booth = b}}

StatusFor(l, b) ==
    {system_status[j] : j \in {k \in DOMAIN system_status :
                                 system_status[k].location = l /\ system_status[k].booth = b}}

\* C1: in an evaluation that rendered the page, every booth whose fetch
\* returned data has its alerts and its liveness status derived from its own
\* latest reading, no booth with data is skipped, and every alert and
\* status is attributed to a booth whose own latest reading gives it.
C1_PerBoothEvaluation ==
    (Evaluated /\ response.kind = "render") =>
      /\ \A i \in DOMAIN fetched :
           HasData(fetched[i]) =>
             LET e == fetched[i]
                 row == Last(e.df.rows)
             IN /\ AlertsFor(e.location, e.booth) = SpecAlerts(row, e.location, e.booth)
                /\ \E st \in StatusFor(e.location, e.booth) : st.status = SpecState(row, now)
      /\ \A j \in DOMAIN active_alerts :
           \E i \in DOMAIN fetched :
             /\ HasData(fetched[i])
             /\ fetched[i].location = active_alerts[j].location
             /\ fetched[i].booth = active_alerts[j].booth
             /\ active_alerts[j] \in SpecAlerts(Last(fetched[i].df.rows),
                                                fetched[i].location, fetched[i].booth)

\* C2: a booth with no data is a first-class state.  Whenever a booth's
\* fetch returned nothing, the evaluation does not raise, no alert is
\* attributed to that booth, and its status is {Never, Offline}.
C2_NoDataIsFirstClass ==
    Evaluated =>
      \A i \in DOMAIN fetched :
        ~HasData(fetched[i]) =>
          /\ response.kind # "raise"
          /\ AlertsFor(fetched[i].location, fetched[i].booth) = {}
          /\ \E st \in StatusFor(fetched[i].location, fetched[i].booth) :
               st.last_seen = Never /\ st.status = "Offline"

\* C3: the alert evaluator emits HighCO2 exactly when co2_ppm is present and
\* above 1000, carrying the truncated ppm, and HighTemp exactly when temp_c
\* is present and above 25, carrying the value; each at most once, both for
\* a reading above both thresholds, none at a threshold or for a missing
\* value.
C3_AlertThresholds ==
    AlertsEvaluated =>
      LET co2 == latest.co2_ppm
          temp == latest.temp_c
          CO2s == {j \in DOMAIN active_alerts : active_alerts[j].kind = "HighCO2"}
          Temps == {j \in DOMAIN active_alerts : active_alerts[j].kind = "HighTemp"}
      IN /\ CO2s \cup Temps = DOMAIN active_alerts
         /\ Cardinality(CO2s) = IF co2.k = "num" /\ co2.v > 10000 THEN 1 ELSE 0
         /\ Cardinality(Temps) = IF temp.k = "num" /\ temp.v > 250 THEN 1 ELSE 0
         /\ \A j \in CO2s : active_alerts[j].value = [k |-> "int", v |-> co2.v \div 10]
         /\ \A j \in Temps : active_alerts[j].value = temp

\* C3's case: a reading of 1001.9 ppm and 25.1 degrees fired both alerts,
\* the first carrying 1001.
C3_Witness ==
    /\ AlertsEvaluated
    /\ latest.co2_ppm = Num(10019)
    /\ latest.temp_c = Num(251)
    /\ Len(active_alerts) = 2
    /\ active_alerts[1].value = [k |-> "int", v |-> 1001]

\* C4, for an evaluation whose latest reading exists: the liveness evaluator
\* gives {Never, Offline} when the reading's time is missing; otherwise
\* Offline exactly when now - time is above one hour, Online otherwise.
C4_Liveness ==
    (Evaluated /\ "latest" \in bound /\ response.what # "load_sensor_data") =>
      /\ response.kind # "raise"
      /\ Len(system_status) = 1
      /\ system_status[1].status = SpecState(latest, now)
      /\ IsMissing(latest.time) => system_status[1].last_seen = Never

\* The booths the topology table registers under a location.
BoothsRegistered(l) ==
    {df_clients[i].booth : i \in {k \in DOMAIN df_clients : df_clients[k].location = l}}

\* The locations the requester sees.
VisibleLocations ==
    {df_clients[i].location :
       i \in {k \in DOMAIN df_clients :
                session.role = "client" => df_clients[k].client_name = session.client_name}}

Exceeds(row) ==
    \/ row.co2_ppm.k = "num" /\ row.co2_ppm.v > 10000
    \/ row.temp_c.k = "num" /\ row.temp_c.v > 250

\* C10: a location's summary count is the number of its distinct booths
\* whose fetch returned data and whose own latest reading is above a
\* threshold; it never exceeds the number of the location's booths; and once
\* the loop has ended every visible location has its count.
C10_LocationSummary ==
    /\ \A l \in DOMAIN location_summaries :
         /\ location_summaries[l] =
              Cardinality({b \in BoothsRegistered(l) :
                             \E i \in DOMAIN fetched :
                               /\ fetched[i].location = l
                               /\ fetched[i].booth = b
                               /\ HasData(fetched[i])
                               /\ Exceeds(Last(fetched[i].df.rows))})
         /\ location_summaries[l] <= Cardinality(BoothsRegistered(l))
    /\ (session.logged_in /\ pc \in {"alerts", "status", "spotlight", "done"}) =>
         DOMAIN location_summaries = VisibleLocations

\* C10's case: the page was rendered with a location counted 1 whose one
\* booth is above both thresholds and whose other booth had no data.
C10_Witness ==
    /\ Evaluated /\ response.kind = "render"
    /\ \E l \in DOMAIN location_summaries :
         /\ location_summaries[l] = 1
         /\ \E i, j \in DOMAIN fetched :
              /\ fetched[i].location = l /\ fetched[j].location = l
              /\ ~HasData(fetched[i])
              /\ HasData(fetched[j])
              /\ Last(fetched[j].df.rows).co2_ppm.v > 10000
              /\ Last(fetched[j].df.rows).temp_c.v > 250

\* ------------------------------------------------------- claims on booth()

\* The key of historical_context for a metric.
ChangeKey(m) == IF m = "temp_c" THEN "temp_change" ELSE "hum_change"

\* C6: the historical delta holds a metric exactly when some reading is
\* older than 24 hours, the latest reading has the metric, and a reading
\* older than 24 hours has it; its value is then the latest value minus the
\* mean of the older values that are present, and never NaN.
C6_HistoricalDelta ==
    (pc = "done" /\ response.kind = "render" /\ HasData(out)) =>
      LET rows == out.df.rows
          cur == Last(rows)
          prior == {i \in DOMAIN rows : rows[i].time.k = "ts" /\ rows[i].time.v < now - 86400}
      IN \A m \in {"temp_c", "humidity_pct"} :
           LET have == {i \in prior : rows[i][m].k = "num"}
               total == sum([i \in 1..Len(rows) |->
                               IF i \in have THEN rows[i][m] ELSE Num(0)])
           IN /\ ChangeKey(m) \in DOMAIN historical_context
                   <=> (prior # {} /\ cur[m].k = "num" /\ have # {})
              /\ ChangeKey(m) \in DOMAIN historical_context =>
                   /\ historical_context[ChangeKey(m)].k = "ratio"
                   /\ historical_context[ChangeKey(m)].d = Cardinality(have)
                   /\ historical_context[ChangeKey(m)].n
                        = cur[m].v * Cardinality(have) - total

====
